---------------------------- MODULE Spec2Model ----------------------------
(***************************************************************************)
(* Model of the performance engine of dpp-app: the quote resolver, the     *)
(* portfolio valuation, the beta estimate, the daily alpha and the market  *)
(* clock of src/daily.py (repeated in data-grab-v2.py and                  *)
(* data-grab-v3.py), the older resolver and beta estimate of               *)
(* src/data-grab.py, which differ, and the two backtests of                *)
(* src/portfolio-optimizer.py and src/data-grab-v3.py.                     *)
(*                                                                         *)
(* Numbers.  Python floats are modelled as exact decimals in fixed point:  *)
(*   - a raw price handed out by the data source is an integer number of   *)
(*     1e-5 (RawScale units per 1.0), one digit finer than any rounding    *)
(*     the program performs;                                               *)
(*   - every value the program has rounded (quotes, dollar change,         *)
(*     percent change) is an integer number of 1e-4 (Scale units per 1.0); *)
(*   - rates are integers (or fractions num/den) of 1e-6.                  *)
(* round() rounds to the nearest, ties to even, as Python does on the      *)
(* exact value.  None is the empty tuple, a present optional value v is    *)
(* <<v>>, and a quote [previous_close, current_price] is a pair.           *)
(***************************************************************************)
EXTENDS Integers, Sequences, FiniteSets, TLC

VARIABLES
    call,        \* name of the function that was called last
    arg,         \* its arguments
    market,      \* what the data source answers during that call, per ticker
    price_data,  \* the quotes the call resolved, in order
    requests,    \* the requests the call issued to the data source, in order
    locals,      \* the named intermediate values of the call
    raised,      \* TRUE when the call ended in an exception it did not catch
    ret          \* its return value (None when it raised)

vars == <<call, arg, market, price_data, requests, locals, raised, ret>>

---------------------------------------------------------------------------
(* Bounds of the model *)

\* longest portfolio entered
MaxHoldings == 2
\* most daily bars the data source holds for one ticker
MaxBars == 2
\* most dates a bulk download of closing prices carries
MaxDates == 3

---------------------------------------------------------------------------
(* Fixed point and Python's round() *)

RawScale == 10^5
Scale == 10^4

None == <<>>

Abs(n) == IF n < 0 THEN -n ELSE n

Sign(n) == IF n < 0 THEN -1 ELSE 1

\* nearest integer to a/b for a >= 0, b > 0, ties to the even neighbour
NearestEven(a, b) ==
    LET q == a \div b
        r == a % b
    IN  IF 2 * r > b THEN q + 1
        ELSE IF 2 * r = b THEN q + (q % 2)
        ELSE q

\* round(float(x), precision) of a raw price x: the result in 1e-4 units
RoundPrice(x, precision) ==
    IF precision = 4 THEN NearestEven(x, 10)
    ELSE 100 * NearestEven(x, 1000)

\* round(x, 2) of a signed amount x held in 1e-4 units
Round2(x) == Sign(x) * 100 * NearestEven(Abs(x), 100)

\* the digits of n/d after `digits` steps of long division, for n, d >= 0:
\* <<floor(n * 10^digits / d), remainder>>
RECURSIVE LongDiv(_, _, _)
LongDiv(n, d, digits) ==
    IF digits = 0 THEN <<n \div d, n % d>>
    ELSE LET prev == LongDiv(n, d, digits - 1)
         IN  <<prev[1] * 10 + ((prev[2] * 10) \div d), (prev[2] * 10) % d>>

\* round(n / d, 4) for d # 0: the result in 1e-4 units
RoundDiv4(n, d) ==
    LET qr == LongDiv(Abs(n), Abs(d), 4)
        q  == qr[1]
        r  == qr[2]
        up == IF 2 * r > Abs(d) THEN 1
              ELSE IF 2 * r = Abs(d) THEN q % 2
              ELSE 0
    IN  Sign(n) * Sign(d) * (q + up)

---------------------------------------------------------------------------
(* The data source (yfinance) as the resolver sees it *)

Tickers == {"AAA", "^TNX"}

\* raw prices the data source may hand out (1e-5 units): zero, one that
\* rounds to zero at 2 decimals, a yield and a share price
RawPrices == {0, 449, 425057, 10512346}

Optional(S) == {None} \cup {<<v>> : v \in S}

SeqsUpTo(S, n) == UNION {[1..k -> S] : k \in 0..n}

\* one ticker's answers: ticker.info (or the exception it raises) and the
\* daily bars' closes, oldest first (or the exception history() raises)
Sources ==
    [infoFails          : BOOLEAN,
     previousClose      : Optional(RawPrices),
     regularMarketPrice : Optional(RawPrices),
     currentPrice       : Optional(RawPrices),
     histFails          : BOOLEAN,
     bars               : SeqsUpTo(RawPrices, MaxBars)]

\* ticker.history(interval="1d", period="<n>d")['Close']: the last n bars
history(src, n) ==
    IF Len(src.bars) <= n THEN src.bars
    ELSE SubSeq(src.bars, Len(src.bars) - n + 1, Len(src.bars))

\* hist['Close'].iloc[-1]
iloc_last(hist) == hist[Len(hist)]

\* hist['Close'].iloc[-2]
iloc_second_last(hist) == hist[Len(hist) - 1]


---------------------------------------------------------------------------
(* return_prev_close_and_current, src/daily.py *)

\* "x is None or x == 0"
Unusable(x) == x = None \/ x[1] = 0

\* faulty variant: the yield ticker is not singled out
precisionAlways2(ticker_string) == 2

precision(ticker_string) == IF ticker_string = "^TNX" THEN 4 ELSE 2

\* Step 1, the previous close.  outcome "value": previous_close is bound;
\* "return_none": the early return; "raise": history() raised.  hist is the
\* local of that name: None while it is not in locals().
get_previous_close(src) ==
    IF ~Unusable(src.previousClose)
    THEN [outcome |-> "value", value |-> src.previousClose[1],
          hist |-> None, requests |-> <<>>]
    ELSE IF src.histFails
    THEN [outcome |-> "raise", value |-> 0,
          hist |-> None, requests |-> <<"history_2d">>]
    ELSE LET hist == history(src, 2)
         IN  IF hist # <<>> /\ Len(hist) >= 1
             THEN [outcome |-> "value", value |-> iloc_last(hist),
                   hist |-> <<hist>>, requests |-> <<"history_2d">>]
             ELSE [outcome |-> "return_none", value |-> 0,
                   hist |-> <<hist>>, requests |-> <<"history_2d">>]

\* faulty variant: currentPrice is preferred to regularMarketPrice
info_current_priceSwapped(src) ==
    IF Unusable(src.currentPrice)
    THEN src.regularMarketPrice
    ELSE src.currentPrice

\* the two snapshot tiers of the current price
info_current_price(src) ==
    IF Unusable(src.regularMarketPrice)
    THEN src.currentPrice
    ELSE src.regularMarketPrice

\* Step 2, the current price (an optional value: it may still be None or 0)
get_current_price(src, hist_local) ==
    LET current_price == info_current_price(src)
    IN  IF ~Unusable(current_price)
        THEN [outcome |-> "value", value |-> current_price, requests |-> <<>>]
        ELSE IF hist_local = None /\ src.histFails
        THEN [outcome |-> "raise", value |-> current_price,
              requests |-> <<"history_1d">>]
        ELSE LET hist == IF hist_local = None THEN history(src, 1)
                         ELSE hist_local[1]
                 reqs == IF hist_local = None THEN <<"history_1d">> ELSE <<>>
             IN  [outcome |-> "value",
                  value |-> IF hist # <<>> THEN <<iloc_last(hist)>>
                            ELSE current_price,
                  requests |-> reqs]

\* faulty variant: the final check is missing
current_price_rejectedNever(current_price) == FALSE

\* the final check "if current_price is None or current_price == 0: return None"

current_price_rejected(current_price) == Unusable(current_price)

\* the whole function: [ret |-> None or <<previous_close, current_price>>,
\* requests |-> what was asked of the data source].  Every exception ends in
\* the one "except Exception" around the body, which returns None.
return_prev_close_and_current(ticker_string, src) ==
    IF src.infoFails
    THEN [ret |-> None, requests |-> <<"info">>]
    ELSE
    LET pc == get_previous_close(src)
    IN  IF pc.outcome # "value"
        THEN [ret |-> None, requests |-> <<"info">> \o pc.requests]
        ELSE
        LET cp   == get_current_price(src, pc.hist)
            reqs == <<"info">> \o pc.requests \o cp.requests
        IN  IF cp.outcome = "raise" \/ current_price_rejected(cp.value)
            THEN [ret |-> None, requests |-> reqs]
            ELSE [ret |-> <<RoundPrice(pc.value, precision(ticker_string)),
                           RoundPrice(IF cp.value = None THEN 0 ELSE cp.value[1],
                                      precision(ticker_string))>>,
                  requests |-> reqs]

---------------------------------------------------------------------------
(* return_prev_close_and_current, src/data-grab.py: the first variant, which *)
(* always reads the previous close from the 2-day history and falls back    *)
(* to 1-minute bars for the current price.  src carries two more fields:    *)
(* minuteFails and minute (the 'Adj Close' of the 1-minute bars).           *)

return_prev_close_and_current_v1(ticker_string, src) ==
    IF src.histFails
    THEN [ret |-> None, raised |-> FALSE, requests |-> <<"history_2d">>]
    ELSE
    LET daily_data == history(src, 2)
    IN  IF daily_data = <<>> \/ Len(daily_data) < 2
        THEN [ret |-> None, raised |-> FALSE, requests |-> <<"history_2d">>]
        ELSE
        LET previous_close == iloc_second_last(daily_data)
            \* the try block around ticker.info: None when it raised
            current_price  == IF src.infoFails THEN None
                              ELSE info_current_price(src)
        IN  IF ~Unusable(current_price)
            THEN [ret |-> <<RoundPrice(previous_close, precision(ticker_string)),
                           RoundPrice(current_price[1], precision(ticker_string))>>,
                  raised |-> FALSE, requests |-> <<"history_2d", "info">>]
            ELSE IF src.minuteFails
            \* the except block fetches the 1-minute bars outside any try
            THEN [ret |-> None, raised |-> TRUE,
                  requests |-> <<"history_2d", "info", "history_1m">>]
            ELSE
            LET fallback == IF src.minute = <<>> THEN iloc_last(daily_data)
                            ELSE iloc_last(src.minute)
            IN  [ret |-> IF fallback = 0 THEN None
                         ELSE <<RoundPrice(previous_close, precision(ticker_string)),
                                RoundPrice(fallback, precision(ticker_string))>>,
                 raised |-> FALSE,
                 requests |-> <<"history_2d", "info", "history_1m">>]

---------------------------------------------------------------------------
(* run_calcs, src/daily.py *)

\* faulty variant: a ticker entered again is rejected and left unresolved
resolve_allRejectsDuplicates(tickers, m) ==
    [i \in 1..Len(tickers) |->
        IF \E j \in 1..(i - 1) : tickers[j] = tickers[i]
        THEN [ret |-> None, requests |-> <<>>]
        ELSE return_prev_close_and_current(tickers[i], m[tickers[i]])]

\* "for ticker in tickers: price_data.append(return_prev_close_and_current(ticker))"
resolve_all(tickers, m) ==
    [i \in 1..Len(tickers) |->
        return_prev_close_and_current(tickers[i], m[tickers[i]])]

\* faulty variant: unresolved holdings are not noticed
any_noneNever(quotes) == FALSE

\* "any(p is None for p in price_data)"

any_none(quotes) == \E i \in DOMAIN quotes : quotes[i] = None

\* "for i in range(len(tickers)): if price_data[i]: total += num_shares[i] *
\* price_data[i][k]", over the first n holdings; a quote that is None is falsy
RECURSIVE weighted_total(_, _, _, _)
weighted_total(num_shares, quotes, k, n) ==
    IF n = 0 THEN 0
    ELSE weighted_total(num_shares, quotes, k, n - 1)
             + (IF quotes[n] # None THEN num_shares[n] * quotes[n][k] ELSE 0)

total_portfolio_at_open(num_shares, quotes) ==
    weighted_total(num_shares, quotes, 1, Len(quotes))

\* faulty variant: the last holding is left out of the current total
total_portfolio_currentSkipsLast(num_shares, quotes) ==
    weighted_total(num_shares, quotes, 2,
                   IF quotes = <<>> THEN 0 ELSE Len(quotes) - 1)

total_portfolio_current(num_shares, quotes) ==
    weighted_total(num_shares, quotes, 2, Len(quotes))

\* "round(total_portfolio_current - total_portfolio_at_open, 2)"
dollar_change(at_open, current) == Round2(current - at_open)

\* faulty variant: the change is divided by the current total
percent_changeFromCurrent(change, at_open) ==
    IF at_open = 0 \/ at_open + change = 0 THEN 0
    ELSE RoundDiv4(change, at_open + change)

\* faulty variant: a zero baseline is reported as a full gain or loss
percent_changeFullOnZero(change, at_open) ==
    IF at_open = 0 THEN Sign(change) * Scale ELSE RoundDiv4(change, at_open)

\* "0.0000 if total_portfolio_at_open == 0 else round(dollar_change / total, 4)"
percent_change(change, at_open) ==
    IF at_open = 0 THEN 0 ELSE RoundDiv4(change, at_open)

\* the whole function; portfolio_data is [tickers, num_shares]
run_calcs(portfolio_data, m) ==
    LET tickers    == portfolio_data.tickers
        num_shares == portfolio_data.num_shares
        resolved   == resolve_all(tickers, m)
        quotes     == [i \in DOMAIN resolved |-> resolved[i].ret]
        reqs       == [i \in DOMAIN resolved |-> resolved[i].requests]
    IN  IF any_none(quotes)
        THEN [ret |-> <<0, 0>>, price_data |-> quotes, requests |-> reqs,
              locals |-> <<>>]
        ELSE
        LET at_open == total_portfolio_at_open(num_shares, quotes)
            current == total_portfolio_current(num_shares, quotes)
            change  == dollar_change(at_open, current)
        IN  [ret |-> <<change, percent_change(change, at_open)>>,
             price_data |-> quotes, requests |-> reqs,
             locals |-> [total_portfolio_at_open |-> at_open,
                         total_portfolio_current |-> current]]

---------------------------------------------------------------------------
(* calculate_beta and alpha, src/daily.py *)

TRADING_DAYS_PER_YEAR == 252

LOOKBACK_YEARS == 5

\* rates are integers in 1e-6; beta is an integer number of tenths
MicroScale == 10^6
BetaScale == 10^1

\* What yf.download and the pandas/numpy pipeline yield for one call of
\* calculate_beta: the download may raise; columns are the tickers that came
\* back; observations is len(combined_returns) after dropna(); np.polyfit
\* may raise; slope is np.polyfit(...)[0] over those rows, in tenths.

calculate_beta(portfolio_tickers, market_ticker, lookback_years, download) ==
    \* yf.download raised: the except clause
    IF download.fails THEN BetaScale
    \* data[market_ticker] raises KeyError: the except clause
    ELSE IF market_ticker \notin download.columns THEN BetaScale
    \* "if portfolio_tickers: ... else: return 1.0"
    ELSE IF portfolio_tickers = <<>> THEN BetaScale
    \* "if not valid_tickers: return 1.0"
    ELSE IF \A i \in DOMAIN portfolio_tickers :
                portfolio_tickers[i] \notin download.columns
    THEN BetaScale
    \* "if len(combined_returns) < 126: return 1.0"
    ELSE IF download.observations < 126 THEN BetaScale
    \* np.polyfit raised: the except clause
    ELSE IF download.polyfitFails THEN BetaScale
    ELSE download.slope

\* data-grab.py: one yf.download per ticker, the closes joined on common
\* dates; a ticker that brought nothing back leaves no common date.  An empty
\* ticker list makes pd.concat raise, which the except clause turns into 1.0.
calculate_beta_v1(portfolio_tickers, market_ticker, lookback_years, download) ==
    IF download.fails THEN BetaScale
    ELSE IF portfolio_tickers = <<>> THEN BetaScale
    ELSE IF \/ market_ticker \notin download.columns
            \/ \E i \in DOMAIN portfolio_tickers :
                   portfolio_tickers[i] \notin download.columns
    THEN BetaScale
    \* "if len(combined_returns) < 252: return 1.0"
    ELSE IF download.observations < TRADING_DAYS_PER_YEAR THEN BetaScale
    ELSE IF download.polyfitFails THEN BetaScale
    ELSE download.slope

\* faulty variant: no default when the ^TNX quote is missing
annual_rfrNoDefault(tnx_data) ==
    IF tnx_data # None
    THEN (tnx_data[2] * (MicroScale \div Scale)) \div 100
    ELSE 0

\* "annual_rfr = tnx_data[1] / 100", or 0.04 when tnx_data is falsy (the
\* raise lands in the except clause): the rate in 1e-6
annual_rfr(tnx_data) ==
    IF tnx_data # None
    THEN (tnx_data[2] * (MicroScale \div Scale)) \div 100
    ELSE 4 * (MicroScale \div 100)

\* "daily_rfr = annual_rfr / TRADING_DAYS_PER_YEAR": the fraction num/den of 1e-6
daily_rfr(annual) == [num |-> annual, den |-> TRADING_DAYS_PER_YEAR]

\* faulty variant: the benchmark's excess return forgets the risk-free rate
daily_alphaNoExcess(portfolio_gain, rfr, beta, benchmark_gain) ==
    LET k  == MicroScale \div Scale
        pg == portfolio_gain * k * rfr.den
        bg == benchmark_gain * k * rfr.den
    IN  [num |-> pg * BetaScale - (rfr.num * BetaScale + beta * bg),
         den |-> rfr.den * BetaScale]

\* "portfolio_gain - (daily_rfr + beta * (benchmark_gain - daily_rfr))" with
\* the gains in 1e-4, the rate a fraction of 1e-6 and beta in tenths: the
\* fraction num/den of 1e-6
daily_alpha(portfolio_gain, rfr, beta, benchmark_gain) ==
    LET k  == MicroScale \div Scale
        pg == portfolio_gain * k * rfr.den
        bg == benchmark_gain * k * rfr.den
    IN  [num |-> pg * BetaScale - (rfr.num * BetaScale + beta * (bg - rfr.num)),
         den |-> rfr.den * BetaScale]

\* faulty variant: the benchmark gain is read from the dollar change
alphaBenchmarkDollarChange(portfolio_gain, benchmark_ticker, portfolio_tickers, m, download) ==
    LET tnx    == return_prev_close_and_current("^TNX", m["^TNX"])
        annual == annual_rfr(tnx.ret)
        rfr    == daily_rfr(annual)
        bench  == run_calcs([tickers |-> <<benchmark_ticker>>,
                             num_shares |-> <<1>>], m)
        benchmark_gain == bench.ret[1]
        beta   == calculate_beta(portfolio_tickers, benchmark_ticker,
                                 LOOKBACK_YEARS, download)
    IN  [ret |-> daily_alpha(portfolio_gain, rfr, beta, benchmark_gain),
         price_data |-> <<tnx.ret>> \o bench.price_data,
         requests |-> <<tnx.requests>> \o bench.requests
                          \o <<<<"download">>>>,
         locals |-> [annual_rfr |-> annual, daily_rfr |-> rfr,
                     benchmark_gain |-> benchmark_gain, beta |-> beta]]

\* the whole function
alpha(portfolio_gain, benchmark_ticker, portfolio_tickers, m, download) ==
    LET tnx    == return_prev_close_and_current("^TNX", m["^TNX"])
        annual == annual_rfr(tnx.ret)
        rfr    == daily_rfr(annual)
        bench  == run_calcs([tickers |-> <<benchmark_ticker>>,
                             num_shares |-> <<1>>], m)
        benchmark_gain == bench.ret[2]
        beta   == calculate_beta(portfolio_tickers, benchmark_ticker,
                                 LOOKBACK_YEARS, download)
    IN  [ret |-> daily_alpha(portfolio_gain, rfr, beta, benchmark_gain),
         price_data |-> <<tnx.ret>> \o bench.price_data,
         requests |-> <<tnx.requests>> \o bench.requests
                          \o <<<<"download">>>>,
         locals |-> [annual_rfr |-> annual, daily_rfr |-> rfr,
                     benchmark_gain |-> benchmark_gain, beta |-> beta]]

---------------------------------------------------------------------------
(* backtest_portfolio of portfolio-optimizer.py.  Floats are exact          *)
(* fractions [num, den] in lowest terms with den > 0; den = 0 stands for a  *)
(* float that is not finite (numpy's nan or inf, which divisions by zero    *)
(* yield without raising) and absorbs every operation.                      *)

RECURSIVE GCD(_, _)
GCD(a, b) == IF b = 0 THEN a ELSE GCD(b, a % b)

NonFinite == [num |-> 0, den |-> 0]

Frac(n, d) ==
    IF d = 0 THEN NonFinite
    ELSE LET g == GCD(Abs(n), Abs(d))
         IN  [num |-> Sign(d) * (n \div g), den |-> Abs(d) \div g]

IsFinite(x) == x.den # 0

FAdd(x, y) ==
    IF ~IsFinite(x) \/ ~IsFinite(y) THEN NonFinite
    ELSE LET g == GCD(x.den, y.den)
         IN  Frac(x.num * (y.den \div g) + y.num * (x.den \div g),
                  (x.den \div g) * y.den)

FNeg(x) == [num |-> -x.num, den |-> x.den]

FSub(x, y) == FAdd(x, FNeg(y))

FMul(x, y) ==
    IF ~IsFinite(x) \/ ~IsFinite(y) THEN NonFinite
    ELSE LET a == Frac(x.num, y.den)
             b == Frac(y.num, x.den)
         IN  [num |-> a.num * b.num, den |-> a.den * b.den]

FDiv(x, y) ==
    IF ~IsFinite(x) \/ ~IsFinite(y) \/ y.num = 0 THEN NonFinite
    ELSE FMul(x, Frac(y.den, y.num))

RECURSIVE FSum(_)
FSum(xs) == IF xs = <<>> THEN Frac(0, 1) ELSE FAdd(Head(xs), FSum(Tail(xs)))

\* Series.mean()
FMean(xs) == FDiv(FSum(xs), Frac(Len(xs), 1))

\* the columns a bulk download may carry
BacktestColumns == {"AAA", "BBB", "^GSPC", "^TNX"}

\* one date of raw_data['Close']: per column a close, or None for NaN
Day(aaa, bbb, gspc, tnx) ==
    [c \in BacktestColumns |->
        CASE c = "AAA" -> aaa [] c = "BBB" -> bbb [] c = "^GSPC" -> gspc
          [] OTHER -> tnx]

\* the dates the data source may hand out: share prices and index levels in
\* whole units, the yield in percent
Days ==
    {Day(<<100>>, <<50>>,  <<100>>, <<4>>),
     Day(<<200>>, <<50>>,  <<200>>, <<2>>),
     Day(<<50>>,  <<100>>, <<100>>, <<2>>),
     Day(None,    <<100>>, <<200>>, <<4>>),
     Day(<<100>>, <<50>>,  None,    <<4>>),
     Day(<<200>>, <<100>>, <<100>>, None),
     Day(<<100>>, None,    <<50>>,  <<2>>),
     Day(None,    None,    None,    None)}

\* yf.download(...): it raises, or hands out the dates in order
BacktestDownloads ==
    {[fails |-> TRUE, rows |-> <<>>]}
        \cup [fails : {FALSE}, rows : SeqsUpTo(Days, MaxDates)]

Range(f) == {f[i] : i \in DOMAIN f}

\* the positions of xs, in order, whose element satisfies keep
RECURSIVE Keep(_, _, _)
Keep(xs, keep, i) ==
    IF i > Len(xs) THEN <<>>
    ELSE (IF keep[i] THEN <<i>> ELSE <<>>) \o Keep(xs, keep, i + 1)

\* "price_data.dropna()": the dates on which every downloaded column has a
\* close; the frame is kept as the list of its dates (positions in rows)
dropna(rows, columns) ==
    Keep(rows, [i \in DOMAIN rows |-> \A c \in columns : rows[i][c] # None], 1)

\* "position_values[ticker] = price_data[ticker] * num_shares[i]" for each
\* holding in turn: a ticker listed again replaces its earlier column
position_shares(tickers, num_shares) ==
    [t \in Range(tickers) |->
        num_shares[CHOOSE i \in DOMAIN tickers :
                       /\ tickers[i] = t
                       /\ \A j \in DOMAIN tickers : tickers[j] = t => j <= i]]

RECURSIVE SumOver(_, _)
SumOver(f, S) ==
    IF S = {} THEN 0
    ELSE LET x == CHOOSE x \in S : TRUE IN f[x] + SumOver(f, S \ {x})

\* "portfolio_series = position_values.sum(axis=1)"
portfolio_series(tickers, num_shares, rows, index) ==
    LET shares == position_shares(tickers, num_shares)
    IN  [k \in DOMAIN index |->
            SumOver([t \in DOMAIN shares |-> rows[index[k]][t][1] * shares[t]],
                    DOMAIN shares)]

\* "price_data[ticker]"
column(rows, index, ticker) == [k \in DOMAIN index |-> rows[index[k]][ticker][1]]

\* "(end_val - start_val) / start_val"
total_return(series) == Frac(series[Len(series)] - series[1], series[1])

\* "series.pct_change().dropna()": the first date has no return, and a
\* return that is not a number is dropped
pct_change(series) ==
    [k \in 1..(Len(series) - 1) |-> Frac(series[k + 1] - series[k], series[k])]

\* "price_data[rfr_ticker].mean() / 100"
avg_rfr_annual(yields) ==
    FDiv(FMean([k \in DOMAIN yields |-> Frac(yields[k], 1)]), Frac(100, 1))

\* faulty variant: the annual rate is compounded over the period
period_rfrCompounded(avg_rfr, period_years) ==
    IF period_years <= 5 THEN FMul(avg_rfr, Frac(period_years, 1))
    ELSE FAdd(FMul(avg_rfr, Frac(period_years, 1)), FMul(avg_rfr, avg_rfr))

\* "period_rfr = avg_rfr_annual * period_years"
period_rfr(avg_rfr, period_years) == FMul(avg_rfr, Frac(period_years, 1))

\* np.cov(x, y)[0, 1]: the sample covariance, not finite below two
\* observations
cov(xs, ys) ==
    IF Len(xs) < 2 THEN NonFinite
    ELSE LET mx == FMean(xs)
             my == FMean(ys)
         IN  FDiv(FSum([k \in DOMAIN xs |->
                           FMul(FSub(xs[k], mx), FSub(ys[k], my))]),
                  Frac(Len(xs) - 1, 1))

\* "beta_period = cov_matrix[0, 1] / cov_matrix[0, 0]"
beta_period(bench_daily_rets, port_daily_rets) ==
    FDiv(cov(bench_daily_rets, port_daily_rets),
         cov(bench_daily_rets, bench_daily_rets))

\* "expected_return = period_rfr + beta_period * (benchmark_total_return -
\* period_rfr)"
expected_return(rfr, beta, benchmark_total_return) ==
    FAdd(rfr, FMul(beta, FSub(benchmark_total_return, rfr)))

\* "100 * round(float(alpha_period), 4)": a percentage in 1e-4 units; round()
\* hands a float that is not finite back unchanged
backtested_alpha(alpha_period) ==
    IF IsFinite(alpha_period)
    THEN [outcome |-> "float",
          value |-> 100 * RoundDiv4(alpha_period.num, alpha_period.den)]
    ELSE [outcome |-> "nan"]

\* the whole function; portfolio_data is [tickers, num_shares]
backtest_portfolio(portfolio_data, period_years, download) ==
    LET tickers    == portfolio_data.tickers
        num_shares == portfolio_data.num_shares
        download_list == tickers \o <<"^GSPC", "^TNX">>
        rows       == download.rows
        index      == dropna(rows, Range(download_list))
    IN  IF download.fails \/ index = <<>>
        THEN [ret |-> [outcome |-> "None"], locals |-> [index |-> <<>>]]
        ELSE
        LET series == portfolio_series(tickers, num_shares, rows, index)
            bench  == column(rows, index, "^GSPC")
            portfolio_total_return == total_return(series)
            benchmark_total_return == total_return(bench)
            avg    == avg_rfr_annual(column(rows, index, "^TNX"))
            rfr    == period_rfr(avg, period_years)
            port_rets  == pct_change(series)
            bench_rets == pct_change(bench)
            both   == Keep(port_rets,
                           [k \in DOMAIN port_rets |->
                               IsFinite(port_rets[k]) /\ IsFinite(bench_rets[k])],
                           1)
            beta   == beta_period([k \in DOMAIN both |-> bench_rets[both[k]]],
                                  [k \in DOMAIN both |-> port_rets[both[k]]])
            alpha_period == FSub(portfolio_total_return,
                                 expected_return(rfr, beta,
                                                 benchmark_total_return))
        IN  [ret |-> backtested_alpha(alpha_period),
             locals |-> [index |-> index,
                         portfolio_series |-> series,
                         portfolio_total_return |-> portfolio_total_return,
                         benchmark_total_return |-> benchmark_total_return,
                         avg_rfr_annual |-> avg,
                         period_rfr |-> rfr,
                         beta_period |-> beta,
                         alpha_period |-> alpha_period]]

---------------------------------------------------------------------------
(* backtest_portfolio of data-grab-v3.py: no yield series, no try/except,   *)
(* missing closes filled forward                                            *)

\* "dropna(how='all')": the dates on which some column has a close
dropna_all(rows, index, columns) ==
    LET kept == Keep(index,
                     [k \in DOMAIN index |->
                         \E c \in columns : rows[index[k]][c] # None], 1)
    IN  [k \in DOMAIN kept |-> index[kept[k]]]

\* "port_prices.ffill()": the close of the date, or else the latest earlier
\* close of the frame, or else None
RECURSIVE ffill(_, _, _, _)
ffill(rows, index, ticker, k) ==
    IF k = 0 THEN None
    ELSE IF rows[index[k]][ticker] # None THEN rows[index[k]][ticker]
    ELSE ffill(rows, index, ticker, k - 1)

\* "(port_prices * shares_series).sum(axis=1)": sum() counts NaN as zero
portfolio_values(tickers, num_shares, rows, index) ==
    [k \in DOMAIN index |->
        SumOver([i \in DOMAIN tickers |->
                    LET price == ffill(rows, index, tickers[i], k)
                    IN  IF price = None THEN 0 ELSE price[1] * num_shares[i]],
                DOMAIN tickers)]

\* "series.iloc[-1] / series.iloc[0] - 1.0"
cum_return(series) ==
    FSub(Frac(series[Len(series)], series[1]), Frac(1, 1))

\* the whole function; raised is TRUE when an exception leaves it
backtest_portfolio_v3(portfolio_data, benchmark_ticker, download) ==
    LET tickers    == portfolio_data.tickers
        num_shares == portfolio_data.num_shares
        rows       == download.rows
        data       == dropna_all(rows, [i \in DOMAIN rows |-> i],
                                 {benchmark_ticker} \cup Range(tickers))
        benchmark_index == dropna_all(rows, data, {benchmark_ticker})
        index      == dropna_all(rows, benchmark_index, Range(tickers))
    IN  \* "raise ValueError", yf.download raising, iloc[-1] of an empty series
        IF tickers = <<>> \/ download.fails \/ index = <<>>
        THEN [ret |-> [outcome |-> "None"], raised |-> TRUE,
              locals |-> [index |-> <<>>]]
        ELSE
        LET values == portfolio_values(tickers, num_shares, rows, index)
            benchmark_prices == column(rows, index, benchmark_ticker)
            portfolio_cum_return == cum_return(values)
            benchmark_cum_return == cum_return(benchmark_prices)
        IN  [ret |-> [outcome |-> "dict",
                      portfolio_cum_return |-> portfolio_cum_return,
                      benchmark_cum_return |-> benchmark_cum_return,
                      alpha_cum |-> FSub(portfolio_cum_return,
                                         benchmark_cum_return),
                      start_date |-> index[1],
                      end_date |-> index[Len(index)]],
             raised |-> FALSE,
             locals |-> [index |-> index, portfolio_values |-> values]]

---------------------------------------------------------------------------
(* get_last_updated_time.  A datetime is [date, time]: a day number and the *)
(* seconds since local midnight; a timestamp counts the seconds since local *)
(* midnight of day 0.  A label is the f-string's parts: the time text, the  *)
(* date text (None when the label has none) and the suffix.                 *)

SecondsPerDay == 24 * 3600

\* "US_MARKET_CLOSE_TIME = time(16, 30)"
US_MARKET_CLOSE_TIME == 16 * 3600 + 30 * 60

\* datetime.fromtimestamp(market_timestamp)
fromtimestamp(timestamp) ==
    [date |-> timestamp \div SecondsPerDay, time |-> timestamp % SecondsPerDay]

\* strftime("%I:%M%p"): the zero-padded hour of the 12-hour clock, the
\* minute and AM or PM; the seconds are not shown.  The replace(" 0", " ")
\* that follows finds no blank to act on.
strftime_time(datetime) ==
    LET hour == datetime.time \div 3600
    IN  [hour |-> IF hour % 12 = 0 THEN 12 ELSE hour % 12,
         minute |-> (datetime.time % 3600) \div 60,
         meridiem |-> IF hour < 12 THEN "AM" ELSE "PM",
         padded |-> TRUE]

\* the literal "4:30PM"
FixedCloseText == [hour |-> 4, minute |-> 30, meridiem |-> "PM", padded |-> FALSE]

\* strftime("%m/%d/%y")
strftime_date(datetime) == <<datetime.date>>

\* faulty variant: the close itself still counts as live
is_liveAtClose(data_datetime, current_datetime) ==
    /\ data_datetime.date = current_datetime.date
    /\ current_datetime.time <= US_MARKET_CLOSE_TIME

\* "data_datetime.date() == current_datetime.date() and
\*  current_datetime.time() < US_MARKET_CLOSE_TIME"
is_live(data_datetime, current_datetime) ==
    /\ data_datetime.date = current_datetime.date
    /\ current_datetime.time < US_MARKET_CLOSE_TIME

\* faulty variant: a missing timestamp is answered like a failed request
label_without_timestampAsError(current_datetime) ==
    [time |-> strftime_time(current_datetime),
     date |-> strftime_date(current_datetime),
     suffix |-> " (Error Fallback)"]

\* "{current_time_str} on {current_date_str} (Live Run Fallback)"
label_without_timestamp(current_datetime) ==
    [time |-> strftime_time(current_datetime),
     date |-> strftime_date(current_datetime),
     suffix |-> " (Live Run Fallback)"]

\* the try block; info is [infoFails, regularMarketTime]
label_from_info(info, current_datetime) ==
    \* "if market_timestamp:" is false for None and for 0
    IF info.regularMarketTime # None /\ info.regularMarketTime[1] # 0
    THEN LET data_datetime == fromtimestamp(info.regularMarketTime[1])
         IN  IF is_live(data_datetime, current_datetime)
             THEN [time |-> strftime_time(current_datetime),
                   date |-> strftime_date(current_datetime),
                   suffix |-> ""]
             \* both returns of the else branch are the same string
             ELSE [time |-> FixedCloseText,
                   date |-> strftime_date(data_datetime),
                   suffix |-> ""]
    ELSE label_without_timestamp(current_datetime)

\* daily.py: the error label has the time only
get_last_updated_time(reference_ticker, info, current_datetime) ==
    IF info.infoFails
    THEN [time |-> strftime_time(current_datetime), date |-> None,
          suffix |-> " (Error Fallback)"]
    ELSE label_from_info(info, current_datetime)

\* data-grab-v3.py: the error label has the date as well
get_last_updated_time_v3(reference_ticker, info, current_datetime) ==
    IF info.infoFails
    THEN [time |-> strftime_time(current_datetime),
          date |-> strftime_date(current_datetime),
          suffix |-> " (Error Fallback)"]
    ELSE label_from_info(info, current_datetime)

---------------------------------------------------------------------------
(* State machine: a behaviour is one invocation of one function of the     *)
(* program on a fresh process (nothing is kept between invocations), so    *)
(* every action starts from the state in which nothing has been called.    *)

Init ==
    /\ call = "none"
    /\ arg = None
    /\ market = <<>>
    /\ price_data = <<>>
    /\ requests = <<>>
    /\ locals = <<>>
    /\ raised = FALSE
    /\ ret = None

\* return_prev_close_and_current(ticker_string) against one data source state
Resolve ==
    /\ call = "none"
    /\ \E ticker_string \in Tickers, src \in Sources :
        \E r \in {return_prev_close_and_current(ticker_string, src)} :
            /\ call' = "return_prev_close_and_current"
            /\ arg' = ticker_string
            /\ market' = [t \in {ticker_string} |-> src]
            /\ price_data' = <<r.ret>>
            /\ requests' = r.requests
            /\ locals' = [precision |-> precision(ticker_string)]
            /\ raised' = FALSE
            /\ ret' = r.ret


\* what the first variant sees: it never reads the snapshot's previousClose
SourcesV1 ==
    [infoFails          : BOOLEAN,
     previousClose      : {None},
     regularMarketPrice : Optional(RawPrices),
     currentPrice       : Optional(RawPrices),
     histFails          : BOOLEAN,
     bars               : SeqsUpTo(RawPrices, MaxBars),
     minuteFails        : BOOLEAN,
     minute             : SeqsUpTo(RawPrices, 1)]

\* return_prev_close_and_current(ticker_string) of src/data-grab.py
ResolveV1 ==
    /\ call = "none"
    /\ \E ticker_string \in Tickers, src \in SourcesV1 :
        \E r \in {return_prev_close_and_current_v1(ticker_string, src)} :
            /\ call' = "return_prev_close_and_current_v1"
            /\ arg' = ticker_string
            /\ market' = [t \in {ticker_string} |-> src]
            /\ price_data' = <<r.ret>>
            /\ requests' = r.requests
            /\ locals' = [precision |-> precision(ticker_string)]
            /\ raised' = r.raised
            /\ ret' = r.ret

\* the tickers and share counts a user may enter
PortfolioTickers == {"AAA", "BBB", "^TNX"}

Shares == {-10, 1, 10}

Portfolios ==
    UNION {[tickers : [1..n -> PortfolioTickers], num_shares : [1..n -> Shares]]
           : n \in 0..MaxHoldings}

\* data source states met while valuing a portfolio: a snapshot that is
\* complete (100.00 -> 105.00), a ticker with no snapshot prices and a flat
\* two-bar history, a snapshot whose regularMarketPrice is zero (4.25057 ->
\* 4.31249), and a ticker whose snapshot request fails
PortfolioSources ==
    {[infoFails |-> FALSE, previousClose |-> <<10000000>>,
      regularMarketPrice |-> <<10500000>>, currentPrice |-> None,
      histFails |-> FALSE, bars |-> <<>>],
     [infoFails |-> FALSE, previousClose |-> None,
      regularMarketPrice |-> None, currentPrice |-> None,
      histFails |-> FALSE, bars |-> <<10500000, 10000000>>],
     [infoFails |-> FALSE, previousClose |-> <<425057>>,
      regularMarketPrice |-> <<0>>, currentPrice |-> <<431249>>,
      histFails |-> TRUE, bars |-> <<>>],
     [infoFails |-> TRUE, previousClose |-> None,
      regularMarketPrice |-> None, currentPrice |-> None,
      histFails |-> TRUE, bars |-> <<>>]}

\* run_calcs(portfolio_data) while the data source answers m
RunCalcs ==
    /\ call = "none"
    /\ \E portfolio_data \in Portfolios :
        \E m \in [Range(portfolio_data.tickers) -> PortfolioSources] :
            \E r \in {run_calcs(portfolio_data, m)} :
                /\ call' = "run_calcs"
                /\ arg' = portfolio_data
                /\ market' = m
                /\ price_data' = r.price_data
                /\ requests' = r.requests
                /\ locals' = r.locals
                /\ raised' = FALSE
                /\ ret' = r.ret




\* data source states met while computing alpha: those above, a 2.50 -> 2.52
\* yield, a 100.00 -> 100.80 index, and a ticker with an empty snapshot and
\* no history
AlphaSources ==
    PortfolioSources \cup
    {[infoFails |-> FALSE, previousClose |-> <<250000>>,
      regularMarketPrice |-> <<252000>>, currentPrice |-> None,
      histFails |-> FALSE, bars |-> <<>>],
     [infoFails |-> FALSE, previousClose |-> <<10000000>>,
      regularMarketPrice |-> <<10080000>>, currentPrice |-> None,
      histFails |-> FALSE, bars |-> <<>>],
     [infoFails |-> FALSE, previousClose |-> <<425057>>,
      regularMarketPrice |-> None, currentPrice |-> None,
      histFails |-> FALSE, bars |-> <<>>]}

\* outcomes of the historical download behind calculate_beta
BetaDownloads ==
    [fails : BOOLEAN, columns : {{}, {"^GSPC", "AAA"}},
     observations : {125, 126}, polyfitFails : BOOLEAN, slope : {12}]

BetaTickerLists == {<<>>, <<"AAA">>, <<"BBB">>, <<"BBB", "AAA">>}

BetaInputs ==
    [fails : BOOLEAN,
     columns : {{}, {"^GSPC"}, {"AAA"}, {"^GSPC", "AAA"}},
     observations : {0, 125, 126, 127, 251, 252},
     polyfitFails : BOOLEAN,
     slope : {-3, 8, 12}]

\* calculate_beta(portfolio_tickers, "^GSPC", LOOKBACK_YEARS) of daily.py
CalculateBeta ==
    /\ call = "none"
    /\ \E portfolio_tickers \in BetaTickerLists, download \in BetaInputs :
        \E r \in {calculate_beta(portfolio_tickers, "^GSPC", LOOKBACK_YEARS,
                                 download)} :
            /\ call' = "calculate_beta"
            /\ arg' = [portfolio_tickers |-> portfolio_tickers,
                       market_ticker |-> "^GSPC",
                       lookback_years |-> LOOKBACK_YEARS,
                       download |-> download]
            /\ market' = <<>>
            /\ price_data' = <<>>
            /\ requests' = <<"download">>
            /\ locals' = <<>>
            /\ raised' = FALSE
            /\ ret' = r

\* calculate_beta(portfolio_tickers, "^GSPC", LOOKBACK_YEARS) of data-grab.py
CalculateBetaV1 ==
    /\ call = "none"
    /\ \E portfolio_tickers \in BetaTickerLists, download \in BetaInputs :
        \E r \in {calculate_beta_v1(portfolio_tickers, "^GSPC",
                                    LOOKBACK_YEARS, download)} :
            /\ call' = "calculate_beta_v1"
            /\ arg' = [portfolio_tickers |-> portfolio_tickers,
                       market_ticker |-> "^GSPC",
                       lookback_years |-> LOOKBACK_YEARS,
                       download |-> download]
            /\ market' = <<>>
            /\ price_data' = <<>>
            /\ requests' = <<"download">>
                           \o [i \in DOMAIN portfolio_tickers |-> "download"]
            /\ locals' = <<>>
            /\ raised' = FALSE
            /\ ret' = r

\* alpha(portfolio_gain, "^GSPC", portfolio_tickers) as main() calls it
Alpha ==
    /\ call = "none"
    /\ \E portfolio_gain \in {-250, 0, 100},
       portfolio_tickers \in {<<>>, <<"AAA">>},
       m \in [{"^TNX", "^GSPC"} -> AlphaSources],
       download \in BetaDownloads :
        \E r \in {alpha(portfolio_gain, "^GSPC", portfolio_tickers, m, download)} :
            /\ call' = "alpha"
            /\ arg' = [portfolio_gain |-> portfolio_gain,
                       benchmark_ticker |-> "^GSPC",
                       portfolio_tickers |-> portfolio_tickers,
                       download |-> download]
            /\ market' = m
            /\ price_data' = r.price_data
            /\ requests' = r.requests
            /\ locals' = r.locals
            /\ raised' = FALSE
            /\ ret' = r.ret

\* the portfolios handed to the backtest: none, one holding, two holdings,
\* and a ticker entered twice
BacktestPortfolios ==
    {[tickers |-> <<>>, num_shares |-> <<>>],
     [tickers |-> <<"AAA">>, num_shares |-> <<1>>],
     [tickers |-> <<"AAA">>, num_shares |-> <<3>>],
     [tickers |-> <<"AAA", "BBB">>, num_shares |-> <<1, 2>>],
     [tickers |-> <<"BBB", "AAA">>, num_shares |-> <<1, 1>>],
     [tickers |-> <<"AAA", "AAA">>, num_shares |-> <<1, 2>>]}

PeriodYears == {5, 10}

\* backtest_portfolio(portfolio_data, period_years) of portfolio-optimizer.py
Backtest ==
    /\ call = "none"
    /\ \E portfolio_data \in BacktestPortfolios, period_years \in PeriodYears,
          download \in BacktestDownloads :
        \E r \in {backtest_portfolio(portfolio_data, period_years, download)} :
            /\ call' = "backtest_portfolio"
            /\ arg' = [portfolio_data |-> portfolio_data,
                       period_years |-> period_years,
                       download |-> download]
            /\ market' = <<>>
            /\ price_data' = <<>>
            /\ requests' = <<"download">>
            /\ locals' = r.locals
            /\ raised' = FALSE
            /\ ret' = r.ret

\* backtest_portfolio(portfolio_data) of data-grab-v3.py, each ticker entered
\* once
BacktestV3 ==
    /\ call = "none"
    /\ \E portfolio_data \in BacktestPortfolios, download \in BacktestDownloads :
        /\ \A i, j \in DOMAIN portfolio_data.tickers :
               portfolio_data.tickers[i] = portfolio_data.tickers[j] => i = j
        /\ \E r \in {backtest_portfolio_v3(portfolio_data, "^GSPC", download)} :
            /\ call' = "backtest_portfolio_v3"
            /\ arg' = [portfolio_data |-> portfolio_data,
                       benchmark_ticker |-> "^GSPC",
                       period_years |-> LOOKBACK_YEARS,
                       download |-> download]
            /\ market' = <<>>
            /\ price_data' = <<>>
            /\ requests' = IF portfolio_data.tickers = <<>> THEN <<>>
                           ELSE <<"download">>
            /\ locals' = r.locals
            /\ raised' = r.raised
            /\ ret' = r.ret

\* the reference ticker's snapshot: the request fails, or regularMarketTime
\* is absent or the time of a trade on day 1 or 2
ClockInfos ==
    [infoFails : BOOLEAN,
     regularMarketTime :
        Optional({d * SecondsPerDay + t : d \in {1, 2},
                                          t \in {16 * 3600, 20 * 3600}})]

\* datetime.now(): day 2 or 3, around the close and elsewhere in the day
ClockTimes ==
    [date : {2, 3},
     time : {0, 9 * 3600 + 5 * 60, US_MARKET_CLOSE_TIME - 1,
             US_MARKET_CLOSE_TIME, US_MARKET_CLOSE_TIME + 1,
             SecondsPerDay - 1}]

\* get_last_updated_time("SPY") of daily.py
LastUpdated ==
    /\ call = "none"
    /\ \E info \in ClockInfos, current_datetime \in ClockTimes :
        /\ call' = "get_last_updated_time"
        /\ arg' = [reference_ticker |-> "SPY", info |-> info,
                   current_datetime |-> current_datetime]
        /\ market' = <<>>
        /\ price_data' = <<>>
        /\ requests' = <<"info">>
        /\ locals' = <<>>
        /\ raised' = FALSE
        /\ ret' = get_last_updated_time("SPY", info, current_datetime)

\* get_last_updated_time("SPY") of data-grab-v3.py
LastUpdatedV3 ==
    /\ call = "none"
    /\ \E info \in ClockInfos, current_datetime \in ClockTimes :
        /\ call' = "get_last_updated_time_v3"
        /\ arg' = [reference_ticker |-> "SPY", info |-> info,
                   current_datetime |-> current_datetime]
        /\ market' = <<>>
        /\ price_data' = <<>>
        /\ requests' = <<"info">>
        /\ locals' = <<>>
        /\ raised' = FALSE
        /\ ret' = get_last_updated_time_v3("SPY", info, current_datetime)

Next == Resolve \/ ResolveV1 \/ RunCalcs \/ Alpha \/ CalculateBeta
        \/ CalculateBetaV1 \/ Backtest \/ BacktestV3
        \/ LastUpdated \/ LastUpdatedV3

Spec == Init /\ [][Next]_vars

---------------------------------------------------------------------------
(* Claims about return_prev_close_and_current.  They are stated of both     *)
(* variants of the function unless they name one.                          *)

ResolvedDaily == call = "return_prev_close_and_current"

ResolvedV1 == call = "return_prev_close_and_current_v1"

Resolved == ResolvedDaily \/ ResolvedV1

\* the data source's answers in the resolution just made
TheSource == market[arg]

\* the precision the claims give the ticker just resolved
ClaimedPrecision == IF arg = "^TNX" THEN 4 ELSE 2

\* q (1e-4 units) is the raw price x rounded to p decimals
IsRounded(q, x, p) ==
    IF p = 4
    THEN 10 * q - x \in -5..5
    ELSE q % 100 = 0 /\ 10 * q - x \in -500..500

\* a snapshot field as a tier sees it: missing when the request failed
SnapshotField(src, field) == IF src.infoFails THEN None ELSE src[field]

\* the close of the most recent bar the history tier has: the last 1-minute
\* bar where the variant asks for one and gets one, else the last daily bar;
\* None when there is no such bar
LastBar(src) ==
    IF ResolvedV1 /\ ~src.minuteFails /\ src.minute # <<>>
    THEN <<iloc_last(src.minute)>>
    ELSE IF ~src.histFails /\ src.bars # <<>>
    THEN <<iloc_last(src.bars)>>
    ELSE None

\* C5 as claimed: the previous close of a present quote is the snapshot's
\* previousClose when that is usable, and otherwise the close of the
\* second-most-recent bar of the 2-day daily history.
C5_PrevCloseSecondMostRecent ==
    (ResolvedDaily /\ ret # None) =>
        LET src  == TheSource
            hist == history(src, 2)
        IN  IF ~Unusable(src.previousClose)
            THEN IsRounded(ret[1], src.previousClose[1], ClaimedPrecision)
            ELSE Len(hist) >= 2
                    => IsRounded(ret[1], iloc_second_last(hist), ClaimedPrecision)

\* C6: the current price of a present quote is regularMarketPrice if usable,
\* else currentPrice if usable, else the close of the most recent daily (or
\* intraday) bar.
C6_CurrentPricePriority ==
    (Resolved /\ ret # None) =>
        LET src == TheSource
            rmp == SnapshotField(src, "regularMarketPrice")
            cp  == SnapshotField(src, "currentPrice")
        IN  /\ ~Unusable(rmp) => IsRounded(ret[2], rmp[1], ClaimedPrecision)
            /\ (Unusable(rmp) /\ ~Unusable(cp))
                => IsRounded(ret[2], cp[1], ClaimedPrecision)
            /\ (Unusable(rmp) /\ Unusable(cp))
                => /\ ~Unusable(LastBar(src))
                   /\ IsRounded(ret[2], LastBar(src)[1], ClaimedPrecision)

\* C6 witness: a present quote whose current price came from the last daily
\* bar although the snapshot carried a zero regularMarketPrice.
C6_Witness ==
    /\ ResolvedDaily
    /\ ret # None
    /\ TheSource.regularMarketPrice = <<0>>
    /\ TheSource.currentPrice = None
    /\ ret[2] = RoundPrice(iloc_last(TheSource.bars), ClaimedPrecision)
    /\ ret[2] # 0

\* no tier yields a usable current price
NoUsableCurrentPrice(src) ==
    /\ Unusable(SnapshotField(src, "regularMarketPrice"))
    /\ Unusable(SnapshotField(src, "currentPrice"))
    /\ Unusable(LastBar(src))

\* C7: a quote is never partial: without a usable current price no quote is
\* returned even when a previous close was resolved, and every result that
\* is not None carries both values.
C7_NoPartialQuote ==
    Resolved =>
        /\ NoUsableCurrentPrice(TheSource) => ret = None
        /\ ret # None => (Len(ret) = 2 /\ ret[1] \in Int /\ ret[2] \in Int)

\* C7 witness: the previous close was there, the current price was not.
C7_Witness ==
    /\ ResolvedDaily
    /\ ~TheSource.infoFails
    /\ ~Unusable(TheSource.previousClose)
    /\ NoUsableCurrentPrice(TheSource)
    /\ ret = None

\* C8 as claimed: when only the snapshot request fails and the daily history
\* has usable bars, the result is a present quote.
C8_SnapshotErrorFallsThrough ==
    (/\ ResolvedDaily
     /\ TheSource.infoFails
     /\ ~TheSource.histFails
     /\ Len(TheSource.bars) >= 2
     /\ \A i \in DOMAIN TheSource.bars : TheSource.bars[i] # 0)
        => ret # None

\* C8 also claims that no tier's error leaves the resolver: the first
\* variant lets the error of its 1-minute request through.
C8_NoErrorPropagates ==
    Resolved => ~raised

\* the raw values the data source supplied in this resolution
SuppliedPrices(src) ==
    {f[1] : f \in {src.previousClose, src.regularMarketPrice,
                   src.currentPrice} \ {None}}
        \cup {src.bars[i] : i \in DOMAIN src.bars}
        \cup (IF ResolvedV1 THEN {src.minute[i] : i \in DOMAIN src.minute}
              ELSE {})

\* C9: both values of a present quote are a supplied price rounded to 4
\* decimals for ^TNX and to 2 decimals for every other ticker.
C9_Precision ==
    (Resolved /\ ret # None) =>
        \A i \in 1..2 :
            \E x \in SuppliedPrices(TheSource) :
                IsRounded(ret[i], x, ClaimedPrecision)

\* C9 witness: a ^TNX quote taken wholly from the history fallback and kept
\* at 4 decimals.
C9_Witness ==
    /\ ResolvedDaily
    /\ arg = "^TNX"
    /\ ret # None
    /\ Unusable(TheSource.previousClose)
    /\ Unusable(TheSource.regularMarketPrice)
    /\ Unusable(TheSource.currentPrice)
    /\ ret[1] % 100 # 0
    /\ ret[2] % 100 # 0

\* C9, the other precision: a quote of another ticker taken from the history
\* fallback, where the raw close had more than 2 decimals.
C9_WitnessTwoDecimals ==
    /\ ResolvedDaily
    /\ arg = "AAA"
    /\ ret # None
    /\ Unusable(TheSource.regularMarketPrice)
    /\ Unusable(TheSource.currentPrice)
    /\ iloc_last(TheSource.bars) % 1000 # 0
    /\ ret[2] % 100 = 0
    /\ ret[2] # 0

---------------------------------------------------------------------------
(* Claims about run_calcs *)

Valued == call = "run_calcs"

AllPresent == \A i \in DOMAIN price_data : price_data[i] # None

\* sum over the first n holdings of shares * (current - previous close)
RECURSIVE SumOfChanges(_, _, _)
SumOfChanges(num_shares, quotes, n) ==
    IF n = 0 THEN 0
    ELSE SumOfChanges(num_shares, quotes, n - 1)
             + num_shares[n] * (quotes[n][2] - quotes[n][1])

\* sum over the first n holdings of shares * previous close
RECURSIVE Baseline(_, _, _)
Baseline(num_shares, quotes, n) ==
    IF n = 0 THEN 0
    ELSE Baseline(num_shares, quotes, n - 1) + num_shares[n] * quotes[n][1]

\* C1: if the quote of at least one holding is None, the result is (0, 0)
\* whatever the other holdings are.
C1_AnyAbsentGivesZero ==
    (Valued /\ ~AllPresent) => ret = <<0, 0>>

\* C1 witness: two holdings, the first resolved with a price change, the
\* second unresolvable.
C1_Witness ==
    /\ Valued
    /\ Len(price_data) = 2
    /\ price_data[1] # None
    /\ price_data[1][1] # price_data[1][2]
    /\ price_data[2] = None
    /\ ret = <<0, 0>>

\* C2: with every quote present, dollarChange is the sum over the holdings of
\* shares * (current - previous close), rounded to 2 decimals.
C2_DollarChange ==
    (Valued /\ AllPresent) =>
        ret[1] = Round2(SumOfChanges(arg.num_shares, price_data, Len(price_data)))

\* C2 witness: a short position among the holdings, and a sum that the
\* rounding to 2 decimals changes.
C2_Witness ==
    /\ Valued
    /\ AllPresent
    /\ \E i \in DOMAIN arg.num_shares : arg.num_shares[i] < 0
    /\ SumOfChanges(arg.num_shares, price_data, Len(price_data)) % 100 # 0
    /\ ret[1] # SumOfChanges(arg.num_shares, price_data, Len(price_data))
    /\ ret[1] # 0

\* C3: whenever the baseline total is exactly 0 (the empty portfolio and
\* cancelling positions included), percentChange is 0.
C3_ZeroBaseline ==
    (/\ Valued
     /\ AllPresent
     /\ Baseline(arg.num_shares, price_data, Len(price_data)) = 0)
        => ret[2] = 0

\* C3 witness: a long and a short position whose baselines cancel while the
\* dollar change does not.
C3_Witness ==
    /\ Valued
    /\ AllPresent
    /\ Len(price_data) = 2
    /\ Baseline(arg.num_shares, price_data, 2) = 0
    /\ ret[1] # 0
    /\ ret[2] = 0

\* C3, the empty portfolio: nothing to value, baseline 0, result (0, 0).
C3_EmptyPortfolio ==
    (Valued /\ arg.tickers = <<>>) => ret = <<0, 0>>

\* C4: with every quote present and a nonzero baseline, percentChange is the
\* rounded dollarChange divided by the baseline, rounded to 4 decimals; 10
\* shares from 100.00 to 105.00 give 50.00 and 0.05.
C4_PercentChange ==
    (Valued /\ AllPresent) =>
        LET base == Baseline(arg.num_shares, price_data, Len(price_data))
        IN  /\ base # 0 => ret[2] = RoundDiv4(ret[1], base)
            /\ (/\ arg.num_shares = <<10>>
                /\ price_data = <<<<100 * Scale, 105 * Scale>>>>)
                   => ret = <<50 * Scale, 5 * (Scale \div 100)>>

\* C4 witness: the 10-share example.
C4_Witness ==
    /\ Valued
    /\ arg = [tickers |-> <<"AAA">>, num_shares |-> <<10>>]
    /\ price_data = <<<<100 * Scale, 105 * Scale>>>>
    /\ ret = <<50 * Scale, 5 * (Scale \div 100)>>

---------------------------------------------------------------------------
(* Claims about alpha *)

AlphaCalled == call = "alpha"

C10_WitnessPresent ==
    /\ AlphaCalled
    /\ price_data[1] # None
    /\ price_data[1][2] = 43125
    /\ locals.annual_rfr = 43125

\* R_p - (rf + b * (R_m - rf)) over the common denominator rf.den * BetaScale,
\* in 1e-6: R_p and R_m in 1e-4, rf the fraction rf.num / rf.den of 1e-6, b in
\* tenths
Jensen(R_p, rf, b, R_m) ==
    LET k == MicroScale \div Scale
    IN  (R_p * k * rf.den * BetaScale)
            - (rf.num * BetaScale + b * (R_m * k * rf.den - rf.num))

AlphaFormula ==
    AlphaCalled =>
        /\ locals.beta = calculate_beta(arg.portfolio_tickers,
                                        arg.benchmark_ticker, LOOKBACK_YEARS,
                                        arg.download)
        /\ locals.benchmark_gain =
               run_calcs([tickers |-> <<arg.benchmark_ticker>>,
                          num_shares |-> <<1>>], market).ret[2]
        /\ ret.den = locals.daily_rfr.den * BetaScale
        /\ ret.num = Jensen(arg.portfolio_gain, locals.daily_rfr, locals.beta,
                            locals.benchmark_gain)

\* R_p = 0.01, rf = 0.0001, b = 1.2, R_m = 0.008
AlphaExample ==
    /\ AlphaCalled
    /\ arg.portfolio_gain = 100
    /\ locals.daily_rfr.num = 100 * locals.daily_rfr.den
    /\ locals.beta = 12
    /\ locals.benchmark_gain = 80

\* C12 as stated: alpha = R_p - (rf + b * (R_m - rf)) for the values obtained
\* from the collaborators, and for R_p = 0.01, rf = 0.0001, b = 1.2,
\* R_m = 0.008 the result is 0.00052.
C12_DailyAlphaAsStated ==
    /\ AlphaFormula
    /\ AlphaExample => ret.num = 520 * ret.den

\* C12 amended: alpha = R_p - (rf + b * (R_m - rf)) for the values obtained
\* from the collaborators, and for R_p = 0.01, rf = 0.0001, b = 1.2,
\* R_m = 0.008 the result is 0.00042.
C12_DailyAlpha ==
    /\ AlphaFormula
    /\ AlphaExample => ret.num = 420 * ret.den

\* C12 witness: alpha was called with the example's values and returned
\* 0.00042.
C12_Witness ==
    /\ AlphaExample
    /\ ret.num = 420 * ret.den

---------------------------------------------------------------------------
(* Claims about calculate_beta *)

BetaCalledDaily == call = "calculate_beta"
BetaCalledV1 == call = "calculate_beta_v1"
BetaCalled == BetaCalledDaily \/ BetaCalledV1

\* the fetch brought the benchmark and the portfolio tickers it needs, so
\* that an aligned return series exists
AlignedSeriesExists ==
    /\ arg.market_ticker \in arg.download.columns
    /\ arg.portfolio_tickers # <<>>
    /\ IF BetaCalledV1
       THEN \A i \in DOMAIN arg.portfolio_tickers :
                arg.portfolio_tickers[i] \in arg.download.columns
       ELSE \E i \in DOMAIN arg.portfolio_tickers :
                arg.portfolio_tickers[i] \in arg.download.columns

\* the fetch or a computation step raised
BetaErrorInjected ==
    \/ arg.download.fails
    \/ (BetaCalledDaily /\ arg.market_ticker \notin arg.download.columns)
    \/ (AlignedSeriesExists /\ arg.download.polyfitFails)

BetaContract ==
    /\ arg.download.observations < 126 => ret = BetaScale
    /\ arg.portfolio_tickers = <<>> => ret = BetaScale
    /\ BetaErrorInjected => ret = BetaScale
    /\ (/\ ~BetaErrorInjected
        /\ AlignedSeriesExists
        /\ arg.download.observations >= 126)
           => ret = arg.download.slope

\* C11: calculate_beta returns exactly 1.0 with fewer than 126 aligned
\* observations, with no portfolio tickers, or when the fetch or a
\* computation raises; with 126 or more aligned observations and no error it
\* returns the fitted slope.
C11_BetaDefault == BetaCalled => BetaContract

\* C11 restricted to daily.py, where the threshold is 126.
C11_BetaDefaultDaily == BetaCalledDaily => BetaContract

\* C11 in data-grab.py: between 126 and 251 aligned observations the default
\* is returned although a slope could be fitted.
C11_V1DefaultBelow252 ==
    (/\ BetaCalledV1
     /\ ~BetaErrorInjected
     /\ AlignedSeriesExists
     /\ arg.download.observations < TRADING_DAYS_PER_YEAR) => ret = BetaScale

\* C11 witness: exactly 126 aligned observations give the fitted slope in
\* daily.py, which is not the default.
C11_Witness ==
    /\ BetaCalledDaily
    /\ arg.download.observations = 126
    /\ ~BetaErrorInjected
    /\ AlignedSeriesExists
    /\ ret = arg.download.slope
    /\ ret # BetaScale

\* C11, the default side: 125 aligned observations of a usable download give
\* 1.0 although a slope could be fitted.
C11_WitnessDefault ==
    /\ BetaCalled
    /\ arg.download.observations = 125
    /\ ~BetaErrorInjected
    /\ AlignedSeriesExists
    /\ ret = BetaScale
    /\ arg.download.slope # BetaScale

---------------------------------------------------------------------------
(* Claims about backtest_portfolio *)

BacktestCalled == call = "backtest_portfolio"
BacktestCalledV3 == call = "backtest_portfolio_v3"

\* the backtest of portfolio-optimizer.py came back with a finite number
BacktestComputed == BacktestCalled /\ ret.outcome = "float"

\* the backtest of data-grab-v3.py came back with its dict
BacktestComputedV3 == BacktestCalledV3 /\ ~raised

\* the result carries both cumulative returns
ReportsReturns ==
    {"portfolio_cum_return", "benchmark_cum_return"} \subseteq DOMAIN ret

\* R_p - (rf + b * (R_m - rf)) on fractions
JensenPeriod(R_p, rf, b, R_m) == FSub(R_p, FAdd(rf, FMul(b, FSub(R_m, rf))))

\* Cov(portfolio, benchmark) / Var(benchmark) of the daily returns of the
\* window that portfolio-optimizer.py kept
WindowBeta ==
    LET p == pct_change(locals.portfolio_series)
        b == pct_change(column(arg.download.rows, locals.index, "^GSPC"))
    IN  FDiv(cov(b, p), cov(b, b))

\* what portfolio-optimizer.py computes on the same portfolio and download
SameWindow ==
    backtest_portfolio(arg.portfolio_data, arg.period_years, arg.download)

\* C13: the reported period alpha is portfolioCumReturn - (periodRfr + beta *
\* (benchmarkCumReturn - periodRfr)) with beta = Cov(portfolio, benchmark) /
\* Var(benchmark) over the window, and the result reports the portfolio and
\* benchmark cumulative returns together with that alpha.
C13_PeriodAlpha ==
    /\ BacktestComputed =>
        /\ ReportsReturns
        /\ LET a == JensenPeriod(locals.portfolio_total_return,
                                 locals.period_rfr, WindowBeta,
                                 locals.benchmark_total_return)
           IN  ret.value = 100 * RoundDiv4(a.num, a.den)
    /\ BacktestComputedV3 =>
        /\ ReportsReturns
        /\ SameWindow.ret.outcome = "float" =>
               ret.alpha_cum = SameWindow.locals.alpha_period

\* C13, what portfolio-optimizer.py does: the number it returns is Jensen's
\* alpha of the window as a rounded percentage, and nothing else is returned.
C13_OptimizerReturnsOnlyAlpha ==
    BacktestComputed =>
        /\ DOMAIN ret = {"outcome", "value"}
        /\ LET a == JensenPeriod(locals.portfolio_total_return,
                                 locals.period_rfr, WindowBeta,
                                 locals.benchmark_total_return)
           IN  ret.value = 100 * RoundDiv4(a.num, a.den)

\* C13, what data-grab-v3.py does: both returns are reported, and alpha_cum
\* is their plain difference.
C13_V3PlainDifference ==
    BacktestComputedV3 =>
        /\ ReportsReturns
        /\ ret.alpha_cum = FSub(ret.portfolio_cum_return,
                                ret.benchmark_cum_return)

\* C13: a window on which the plain difference and Jensen's alpha differ.
C13_WitnessDiffers ==
    /\ BacktestComputedV3
    /\ SameWindow.ret.outcome = "float"
    /\ ret.alpha_cum # SameWindow.locals.alpha_period
    /\ ret.portfolio_cum_return = SameWindow.locals.portfolio_total_return

\* the yields of the dates the backtest kept
KeptYields == column(arg.download.rows, locals.index, "^TNX")

RECURSIVE SumSeq(_)
SumSeq(xs) == IF xs = <<>> THEN 0 ELSE Head(xs) + SumSeq(Tail(xs))

\* C14: the period risk-free rate is mean(yield series) / 100 * periodYears;
\* for a fixed average annual yield it is linear in periodYears: doubling
\* periodYears doubles it, nothing is compounded.
C14_PeriodRfrLinear ==
    (BacktestCalled /\ ret.outcome # "None") =>
        LET avg == locals.avg_rfr_annual
            rfr == locals.period_rfr
        IN  /\ avg.num * (Len(KeptYields) * 100) = SumSeq(KeptYields) * avg.den
            /\ rfr.num * avg.den = avg.num * arg.period_years * rfr.den
            /\ period_rfr(avg, 2 * arg.period_years) = FAdd(rfr, rfr)

\* C14 witness: a ten-year backtest whose period rate is twice the five-year
\* rate for the same average yield.
C14_Witness ==
    /\ BacktestCalled
    /\ ret.outcome # "None"
    /\ arg.period_years = 10
    /\ locals.period_rfr.num > 0
    /\ LET five == period_rfr(locals.avg_rfr_annual, 5)
       IN  locals.period_rfr = FAdd(five, five)

\* the series the called backtest requires: the portfolio's tickers, the
\* benchmark, and in portfolio-optimizer.py the yield reference
RequiredSeries ==
    Range(arg.portfolio_data.tickers) \cup {"^GSPC"}
        \cup (IF BacktestCalled THEN {"^TNX"} ELSE {})

\* the dates on which no required series is missing
CommonDates == dropna(arg.download.rows, RequiredSeries)

NoPanel == arg.download.fails \/ CommonDates = <<>>

\* C15: when the price panel is empty after dropping every date on which any
\* required series is missing, or when the bulk fetch raises, the backtest
\* reports a no-result outcome to its caller and raises nothing.
C15_FailureReported ==
    ((BacktestCalled \/ BacktestCalledV3) /\ NoPanel) =>
        (~raised /\ ret.outcome = "None")

\* C15 restricted to portfolio-optimizer.py, which also reports None for
\* nothing else.
C15_OptimizerReportsNone ==
    BacktestCalled => (~raised /\ (NoPanel <=> ret.outcome = "None"))

\* C15 in data-grab-v3.py: a failing fetch leaves the function as an
\* exception.
C15_V3FetchErrorRaises ==
    (BacktestCalledV3 /\ arg.download.fails) => raised

\* C15 witness: the fetch succeeded with dates, none of them common to all
\* required series, and portfolio-optimizer.py returned None.
C15_Witness ==
    /\ BacktestCalled
    /\ ~arg.download.fails
    /\ arg.download.rows # <<>>
    /\ CommonDates = <<>>
    /\ ret.outcome = "None"
    /\ ~raised

---------------------------------------------------------------------------
(* Claims about get_last_updated_time *)

ClockCalled == call \in {"get_last_updated_time", "get_last_updated_time_v3"}

\* the snapshot came and carries a last-trade timestamp
TimestampAvailable == ~arg.info.infoFails /\ arg.info.regularMarketTime # None

TimestampDate == arg.info.regularMarketTime[1] \div SecondsPerDay

\* the four labels
IsLive ==
    /\ ret.suffix = ""
    /\ ret.time = strftime_time(arg.current_datetime)
    /\ ret.date = <<arg.current_datetime.date>>

IsAfterClose == ret.suffix = "" /\ ret.time = FixedCloseText

IsLiveFallback ==
    /\ ret.suffix = " (Live Run Fallback)"
    /\ ret.time = strftime_time(arg.current_datetime)

IsErrorFallback ==
    /\ ret.suffix = " (Error Fallback)"
    /\ ret.time = strftime_time(arg.current_datetime)

\* C16: with a last-trade timestamp available the label is LIVE (the current
\* time) exactly when the timestamp's date is today and the current time is
\* strictly before the close; in every other case, the close itself
\* included, it is AFTER-CLOSE: the fixed close time on the timestamp's date.
C16_LiveOrAfterClose ==
    (ClockCalled /\ TimestampAvailable) =>
        LET live == /\ TimestampDate = arg.current_datetime.date
                    /\ arg.current_datetime.time < 16 * 3600 + 30 * 60
        IN  /\ live <=> IsLive
            /\ ~live <=> IsAfterClose
            /\ IsAfterClose => ret.date = <<TimestampDate>>

\* C16 witness: exactly at the close, with a timestamp of today, the label is
\* the fixed close time and not the current time.
C16_Witness ==
    /\ ClockCalled
    /\ TimestampAvailable
    /\ TimestampDate = arg.current_datetime.date
    /\ arg.current_datetime.time = 16 * 3600 + 30 * 60
    /\ IsAfterClose
    /\ ~IsLive

\* C16, the other cases: one second before the close the label is LIVE, and a
\* timestamp of an earlier day is reported on its own date.
C16_WitnessLive ==
    /\ ClockCalled
    /\ TimestampAvailable
    /\ arg.current_datetime.time = 16 * 3600 + 30 * 60 - 1
    /\ IsLive

C16_WitnessEarlierDate ==
    /\ ClockCalled
    /\ TimestampAvailable
    /\ TimestampDate < arg.current_datetime.date
    /\ arg.current_datetime.time < 16 * 3600 + 30 * 60
    /\ IsAfterClose
    /\ ret.date = <<TimestampDate>>
    /\ ret.date # <<arg.current_datetime.date>>

\* C17: without a timestamp the label is LIVE-FALLBACK with the current
\* time, on an error of the data source it is ERROR-FALLBACK with the current
\* time; every call yields exactly one of the four labels and no exception.
C17_Fallbacks ==
    ClockCalled =>
        /\ ~raised
        /\ (~arg.info.infoFails /\ arg.info.regularMarketTime = None)
               <=> IsLiveFallback
        /\ arg.info.infoFails <=> IsErrorFallback
        /\ Cardinality({k \in 1..4 :
                           \/ k = 1 /\ IsLive
                           \/ k = 2 /\ IsAfterClose
                           \/ k = 3 /\ IsLiveFallback
                           \/ k = 4 /\ IsErrorFallback}) = 1

\* C17 witness: the snapshot came without a timestamp.
C17_Witness ==
    /\ ClockCalled
    /\ ~arg.info.infoFails
    /\ arg.info.regularMarketTime = None
    /\ IsLiveFallback

\* C17, the other case: the snapshot request failed.
C17_WitnessError ==
    /\ ClockCalled
    /\ arg.info.infoFails
    /\ arg.info.regularMarketTime # None
    /\ IsErrorFallback

---------------------------------------------------------------------------
(* Claims about failures of the data source *)

\* C18: no failure of the data source is fatal: whatever fails or comes back
\* empty (snapshot, daily history, intraday history, bulk history), every
\* call ends with a value or a reported no-result, and no exception leaves
\* the function that issued the request.
C18_NoFailureIsFatal == call # "none" => ~raised

\* C18 restricted to daily.py and portfolio-optimizer.py: the resolver,
\* run_calcs, alpha, calculate_beta, get_last_updated_time and the guarded
\* backtest raise nothing.
C18_GuardedCallsNeverRaise ==
    call \in {"return_prev_close_and_current", "run_calcs", "alpha",
              "calculate_beta", "get_last_updated_time",
              "backtest_portfolio"} => ~raised

\* C18 in data-grab.py: the intraday request of the except block fails and
\* the exception leaves the resolver.
C18_WitnessIntraday ==
    /\ call = "return_prev_close_and_current_v1"
    /\ market[arg].minuteFails
    /\ raised

\* C18 in data-grab-v3.py: the bulk request fails and the exception leaves
\* the backtest.
C18_WitnessBulk ==
    /\ BacktestCalledV3
    /\ arg.portfolio_data.tickers # <<>>
    /\ arg.download.fails
    /\ raised

---------------------------------------------------------------------------
(* Claims about the requests of one resolution *)

\* how often a request of the given kinds was issued
Issued(kinds) == Cardinality({i \in DOMAIN requests : requests[i] \in kinds})

DailyHistory == {"history_2d", "history_1d"}

\* the snapshot fields the variant reads: data-grab.py takes the previous
\* close from the history alone
SnapshotFieldsRead ==
    IF ResolvedV1 THEN {"regularMarketPrice", "currentPrice"}
    ELSE {"previousClose", "regularMarketPrice", "currentPrice"}

\* some field of the snapshot was missing, null or zero
SomeSnapshotFieldUnusable ==
    \E field \in SnapshotFieldsRead :
        Unusable(SnapshotField(TheSource, field))

RequestsOnceAndOnlyWhenNeeded ==
    /\ \A i, j \in DOMAIN requests : requests[i] = requests[j] => i = j
    /\ Issued({"info"}) <= 1
    /\ Issued(DailyHistory) <= 1
    /\ Issued(DailyHistory) = 1 => SomeSnapshotFieldUnusable

\* C19: within one resolution no request is issued twice: the snapshot at
\* most once and the daily history at most once, the history fetched for the
\* previous close being reused for the current price; and the history is
\* requested only if some snapshot field was unusable.
C19_NoRequestTwice == Resolved => RequestsOnceAndOnlyWhenNeeded

\* C19 restricted to daily.py.
C19_NoRequestTwiceDaily == ResolvedDaily => RequestsOnceAndOnlyWhenNeeded

\* C19 in daily.py: both fallbacks were needed and one history request
\* served both.
C19_WitnessReuse ==
    /\ ResolvedDaily
    /\ Unusable(SnapshotField(TheSource, "previousClose"))
    /\ Unusable(SnapshotField(TheSource, "regularMarketPrice"))
    /\ Unusable(SnapshotField(TheSource, "currentPrice"))
    /\ requests = <<"info", "history_2d">>
    /\ ret # None

\* C19 in data-grab.py: the daily history is requested first, whatever the
\* snapshot holds.
C19_WitnessHistoryFirst ==
    /\ ResolvedV1
    /\ ~SomeSnapshotFieldUnusable
    /\ requests = <<"history_2d", "info">>
    /\ ret # None

---------------------------------------------------------------------------
(* Claims about the backtest's panel *)

\* the backtest came back with numbers
PanelUsed == (BacktestCalled /\ ret.outcome # "None") \/ BacktestComputedV3

ValueSeries ==
    IF BacktestCalled THEN locals.portfolio_series ELSE locals.portfolio_values

PortfolioReturn ==
    IF BacktestCalled THEN locals.portfolio_total_return
    ELSE ret.portfolio_cum_return

BenchmarkReturn ==
    IF BacktestCalled THEN locals.benchmark_total_return
    ELSE ret.benchmark_cum_return

\* sum over the holdings of shares_i * price_i on the given date
HoldingsValue(date) ==
    LET tickers == arg.portfolio_data.tickers
    IN  SumSeq([i \in DOMAIN tickers |->
                   arg.portfolio_data.num_shares[i]
                       * arg.download.rows[date][tickers[i]][1]])

PanelContract ==
    /\ locals.index = CommonDates
    /\ \A k \in DOMAIN CommonDates :
           ValueSeries[k] = HoldingsValue(CommonDates[k])
    /\ LET n == Len(CommonDates)
           bench == column(arg.download.rows, CommonDates, "^GSPC")
       IN  /\ PortfolioReturn = Frac(ValueSeries[n] - ValueSeries[1],
                                     ValueSeries[1])
           /\ BenchmarkReturn = Frac(bench[n] - bench[1], bench[1])

\* each ticker of the portfolio is listed once
DistinctTickers ==
    \A i, j \in DOMAIN arg.portfolio_data.tickers :
        arg.portfolio_data.tickers[i] = arg.portfolio_data.tickers[j] => i = j

\* C20: every date on which any required series (a portfolio ticker, the
\* benchmark, the yield reference) has no price is dropped and never filled
\* from an earlier date; on the remaining dates the portfolio value is the
\* sum over holdings of shares_i * price_i(t); each cumulative return is
\* (last - first) / first of its series over those dates.
C20_CommonDates == PanelUsed => PanelContract

\* C20 restricted to portfolio-optimizer.py with each ticker listed once.
C20_OptimizerCommonDates ==
    (BacktestCalled /\ ret.outcome # "None" /\ DistinctTickers)
        => PanelContract

\* C20 in portfolio-optimizer.py: a date is dropped for one missing close,
\* and the two holdings are summed on the dates that remain.
C20_WitnessDropped ==
    /\ BacktestCalled
    /\ ret.outcome # "None"
    /\ Len(arg.portfolio_data.tickers) = 2
    /\ DistinctTickers
    /\ Len(CommonDates) = 2
    /\ Len(arg.download.rows) = 3
    /\ PanelContract
    /\ PortfolioReturn.num # 0

\* C20 in data-grab-v3.py: a date on which one ticker has no close is kept
\* and valued with the ticker's earlier close.
C20_WitnessFilled ==
    /\ BacktestComputedV3
    /\ Len(arg.portfolio_data.tickers) = 2
    /\ locals.index # CommonDates
    /\ \E k \in DOMAIN locals.index :
           /\ k > 1
           /\ arg.download.rows[locals.index[k]]["AAA"] = None
           /\ arg.download.rows[locals.index[k - 1]]["AAA"] # None
           /\ arg.download.rows[locals.index[k]]["BBB"] # None
           /\ locals.portfolio_values[k] =
                  SumSeq([i \in DOMAIN arg.portfolio_data.tickers |->
                      arg.portfolio_data.num_shares[i] *
                      (IF arg.portfolio_data.tickers[i] = "AAA"
                       THEN arg.download.rows[locals.index[k - 1]]["AAA"][1]
                       ELSE arg.download.rows[locals.index[k]]["BBB"][1])])

\* C20 in portfolio-optimizer.py: a ticker listed twice is valued with its
\* last share count only.
C20_WitnessOverwritten ==
    /\ BacktestCalled
    /\ ret.outcome # "None"
    /\ arg.portfolio_data.tickers = <<"AAA", "AAA">>
    /\ locals.index = CommonDates
    /\ locals.portfolio_series[1] =
           arg.portfolio_data.num_shares[2]
               * arg.download.rows[locals.index[1]]["AAA"][1]
    /\ locals.portfolio_series[1] # HoldingsValue(locals.index[1])

---------------------------------------------------------------------------
(* Claims about repeated tickers in run_calcs *)

\* the portfolio valued holds one ticker twice
HeldTwice ==
    /\ Valued
    /\ Len(arg.tickers) = 2
    /\ arg.tickers[1] = arg.tickers[2]

\* the same ticker held once with the two share counts added
MergedPortfolio ==
    [tickers |-> <<arg.tickers[1]>>,
     num_shares |-> <<arg.num_shares[1] + arg.num_shares[2]>>]

\* C21: duplicate tickers are neither merged nor rejected: a portfolio that
\* holds a ticker twice, with a and b shares, gets the same (dollarChange,
\* percentChange) as one that holds it once with a + b shares, the data
\* source answering the same for each resolution of the ticker.
C21_DuplicatesAdd ==
    HeldTwice =>
        /\ Len(price_data) = 2
        /\ price_data[1] = price_data[2]
        /\ ret = run_calcs(MergedPortfolio, market).ret

\* C21 witness: 1 and 10 shares of a ticker that gained are valued like 11
\* shares, with a dollar change that only both holdings together explain.
C21_Witness ==
    /\ HeldTwice
    /\ arg.num_shares = <<1, 10>>
    /\ AllPresent
    /\ ret = run_calcs(MergedPortfolio, market).ret
    /\ ret[1] = Round2(11 * (price_data[1][2] - price_data[1][1]))
    /\ ret[1] # 0
    /\ ret[2] # 0

---------------------------------------------------------------------------
(* Claims about zero prices *)

\* C22: every quote that is not None has a nonzero previous close and a
\* nonzero current price: no zero is reported, whether the value came from a
\* snapshot field or from a history bar, and also after the rounding to the
\* ticker's precision.
C22_NoZeroPrice ==
    (Resolved /\ ret # None) => (ret[1] # 0 /\ ret[2] # 0)

\* C22, where the zeros come from: a reported zero is a history bar of zero
\* taken as the previous close, or a nonzero price that the rounding turned
\* into zero; the current price is never zero before the rounding.
C22_ZeroOnlyFromBarOrRounding ==
    (Resolved /\ ret # None) =>
        /\ ret[1] = 0 =>
               \/ \E i \in DOMAIN TheSource.bars : TheSource.bars[i] = 0
               \/ \E x \in SuppliedPrices(TheSource) :
                      x # 0 /\ RoundPrice(x, ClaimedPrecision) = 0
        /\ ret[2] = 0 =>
               \E x \in SuppliedPrices(TheSource) :
                   x # 0 /\ RoundPrice(x, ClaimedPrecision) = 0

\* C22 in daily.py: the snapshot has no previous close, the history's last
\* bar is zero and becomes the previous close of a quote.
C22_WitnessZeroBar ==
    /\ ResolvedDaily
    /\ Unusable(SnapshotField(TheSource, "previousClose"))
    /\ TheSource.bars # <<>>
    /\ iloc_last(TheSource.bars) = 0
    /\ ret # None
    /\ ret[1] = 0
    /\ ret[2] # 0

\* C22 in both variants: a current price of 0.00449 is usable and is
\* reported as 0.00 at 2 decimals.
C22_WitnessRoundedToZero ==
    /\ Resolved
    /\ arg = "AAA"
    /\ ~TheSource.infoFails
    /\ TheSource.regularMarketPrice = <<449>>
    /\ ret # None
    /\ ret[2] = 0

---------------------------------------------------------------------------
(* Claims about the benchmark's part in alpha *)

\* the benchmark's quote as alpha's call of run_calcs resolved it
BenchmarkQuote == price_data[2]

\* percentChange of one share of a present quote: the rounded change over
\* the previous close, 0 on a zero previous close
OneShareReturn(quote) ==
    IF quote[1] = 0 THEN 0
    ELSE RoundDiv4(Round2(quote[2] - quote[1]), quote[1])

\* C23: the benchmark's daily return is the percentChange of the portfolio
\* that holds one share of the benchmark; when the benchmark's quote is None
\* that return is 0 and alpha still returns a number,
\* R_p - (rf + b * (0 - rf)), with nothing telling that the benchmark was
\* unavailable.
C23_AbsentBenchmark ==
    AlphaCalled =>
        /\ BenchmarkQuote # None =>
               locals.benchmark_gain = OneShareReturn(BenchmarkQuote)
        /\ BenchmarkQuote = None =>
               /\ locals.benchmark_gain = 0
               /\ ~raised
               /\ DOMAIN ret = {"num", "den"}
               /\ ret.den = locals.daily_rfr.den * BetaScale
               /\ ret.num = Jensen(arg.portfolio_gain, locals.daily_rfr,
                                   locals.beta, 0)

\* C23 witness: the benchmark's snapshot request failed, and alpha is the
\* number the formula gives for a benchmark return of 0.
C23_Witness ==
    /\ AlphaCalled
    /\ market["^GSPC"].infoFails
    /\ BenchmarkQuote = None
    /\ locals.benchmark_gain = 0
    /\ arg.portfolio_gain # 0
    /\ locals.beta # BetaScale
    /\ ~raised
    /\ ret.num = Jensen(arg.portfolio_gain, locals.daily_rfr, locals.beta, 0)
    /\ ret.num # 0

\* C23, the other case: a present benchmark quote with a gain.
C23_WitnessPresent ==
    /\ AlphaCalled
    /\ BenchmarkQuote # None
    /\ locals.benchmark_gain = OneShareReturn(BenchmarkQuote)
    /\ locals.benchmark_gain # 0

===========================================================================
